---- MODULE Spec2Model ----
(***************************************************************************)
(* Cold redundancy engine of psu-manager (src/src/cold_redundancy.cpp).    *)
(* Every handler of the single-threaded event loop is one action.  A timer *)
(* is the number of its un-cancelled pending waits; the settle timer also  *)
(* keeps the continuations that are still owed a call.                     *)
(***************************************************************************)
EXTENDS Integers, Sequences, FiniteSets, TLC

\* ---------------------------------------------------------------- bounds
\* the PSUs the inventory holds at most
MaxPSU == 2

\* the same, for the specification with failing register transfers
MaxFaultyPSU == 1

\* RotationRankOrder values a settings reply or a policy change may carry.
RankInputs == {<<2>>, <<2, 1>>}

\* the PSUs the inventory holds at most where the health classifier is followed
MaxClassifiedPSU == 3

\* the largest RedundantCount a configuration carries
MaxRedundantCount == 3

\* the largest order written in a register access that is followed attempt
\* by attempt
MaxOrderValue == 2

\* the addresses a PSUPresence configuration can list
MaxAddr == 2

\* the PSU state notifications counted since the last evaluation of the
\* classifier; a burst longer than this counts as this
MaxBurst == 2

\* ------------------------------------------------------------- constants
Normal == "normal"
AcLost == "acLost"
Completed == "completed"
InProgress == "inProgress"
bmcSpecific == "bmcSpecific"
userSpecific == "userSpecific"

\* rotationRankOrder({1, 2, 3, 4}) in the constructor
DefaultRankOrder == <<1, 2, 3, 4>>

\* the health classes: associationsOk, associationsWarning,
\* associationsNonCrit, associationsCrit
Ok == "ok"
Warning == "warning"
NonCritical == "nonCritical"
Critical == "critical"

\* static constexpr const int retryCount = 3
retryCount == 3

\* RedundantCount before a configuration sets it: the default of the
\* interface, which createPSU falls back to
DefaultRedundantCount == 2

VARIABLES
    crSupported,      \* support flag, never assigned in this file
    enabled,          \* powerSupplyRedundancyEnabled()
    rotationEnabled,  \* rotationEnabled()
    algorithm,        \* rotationAlgorithm()
    rankOrder,        \* rotationRankOrder()
    status,           \* coldRedundancyStatus()
    psuState,         \* powerSupplies[i]->state, in fleet order
    order,            \* powerSupplies[i]->order
    hw,               \* the order register of each PSU (pmbusCmdCRSupport)
    settle,           \* warmRedundantTimer: continuations not yet called
    timerRotation,    \* pending waits of timerRotation
    timerCheck,       \* pending waits of timerCheck
    settingsPending,  \* the GetAll call to the settings service is unanswered
    scanned,          \* createPSU() has asked the object mapper for the fleet
    settled,          \* the operation whose continuation ran last, if one did
    lastEc,           \* the error code that continuation was called with
    request,          \* the operation the last handler requested, if any
    writes,           \* the register writes that handler issued: <<psu, value>>
    failed,           \* the PSU whose loss of AC, while it held a rank, was
                      \* the last message from outside the engine, where
                      \* that is recorded; else 0
    reRankCalls,      \* the reRanking() invocations of that handler
    redundantCount,   \* redundantCount()
    puRedundantTimer, \* pending waits of puRedundantTimer
    evaluated,        \* the static psuPreviousWorkable has been initialised
    psuPreviousWorkable, \* its value, once initialised
    association,      \* the Associations property: the health class
    classified,       \* the last handler was an evaluation of the classifier
    compared,         \* the previous count that evaluation compared with
    emitted,          \* the health classes that handler set, in order
    journal,          \* the messages that handler sent to the journal
    rearmed,          \* whether the last handler armed a new wait of
                      \* timerRotation in place of the pending one, and
                      \* whether it was called from outside ("outside" if it
                      \* did, "message" if not) or by a timer ("engine" if
                      \* it did, "no" if not); "off" where the waits are not
                      \* followed
    addrTable,        \* addrTable, the addresses the poller probes, in order
    keepAliveTimer,   \* pending waits of keepAliveTimer
    psuPresence,      \* psuPresence, the addresses that answered last
    poll,             \* the last handler as a poll cycle: a bit that flips
                      \* with every cycle, the addresses that answered, the
                      \* journal entries <<address, event>> in order, and the
                      \* rescans asked for
    lastEvent,        \* the last journal entry of each address, if any
    burst,            \* whether the last handler was eventCollect, and the
                      \* eventCollect calls since the last evaluation, where
                      \* the classifier is followed
    driftCheck,       \* what that handler did as a drift check: whether it
                      \* was one, whether it ran the loop of checkCR, the reads of the loop in
                      \* order, <<psu, value>>, and its calls of configCR;
                      \* followed where the reads may fail
    pmbus             \* one call of writePmbus or readPmbus, followed attempt
                      \* by attempt: the locals, the register, and the count
                      \* of the attempts made

\* the state of the presence poller
presence == <<addrTable, keepAliveTimer, psuPresence, poll, lastEvent>>

\* the state of the health classifier
classifier == <<redundantCount, puRedundantTimer, evaluated,
                psuPreviousWorkable, association>>

vars == <<crSupported, enabled, rotationEnabled, algorithm, rankOrder, status,
          psuState, order, hw, settle, timerRotation, timerCheck,
          settingsPending, scanned, settled, lastEc, request, writes,
          failed, reRankCalls, redundantCount, puRedundantTimer, evaluated,
          psuPreviousWorkable, association, classified, compared, emitted,
          journal, rearmed, addrTable, keepAliveTimer, psuPresence, poll,
          lastEvent,
          burst, driftCheck, pmbus>>

numberOfPSU == Len(order)
PSUs == 1..numberOfPSU

\* ------------------------------------------------------------ the timers
\* steady_timer::cancel and expires_after abort every pending wait
\* (variant: cancel() leaves the pending waits)
CancelKeeps(waits) == waits

\* cancel() and expires_after() abort the pending waits: their handlers are
\* called with operation_aborted and return
Cancel(waits) == 0
AsyncWait(waits) == waits + 1
\* (variant: the new wait is queued behind the pending ones)
StartTimerQueues(waits) == AsyncWait(waits)

StartTimer(waits) == AsyncWait(Cancel(waits))

\* ------------------------------------------------- the register access
\* writePmbus: the register takes the value when the transfer gets through
\* (psu \in ok) and keeps its content when every attempt fails
WritePmbus(regs, ws, ok) ==
    [p \in DOMAIN regs |->
        IF p \in ok /\ \E w \in ws : w[1] = p
        THEN (CHOOSE w \in ws : w[1] = p)[2]
        ELSE regs[p]]

\* The transfers of one handler that get through, among the PSUs it writes:
\* all of them, or any part of them when the bus is faulty.
Transfers(faulty, ws) ==
    IF faulty THEN SUBSET {w[1] : w \in ws} ELSE {{w[1] : w \in ws}}

\* (variant: order 0 to every PSU, whatever its state)
WarmWritesAll(sup, st) ==
    IF ~sup THEN {} ELSE {<<p, 0>> : p \in DOMAIN st}

\* putWarmRedundant: order 0 to every PSU in state normal
WarmWrites(sup, st) ==
    IF ~sup THEN {} ELSE {<<p, 0>> : p \in {q \in DOMAIN st : st[q] = Normal}}

\* -------------------------------------------------------- createPSU
\* the order of the PSU at position i (1-based) taken from a rank order
OrderFromRank(rank, i) == IF i - 1 < Len(rank) THEN rank[i] ELSE 0

OrdersFromRank(rank, n) == [i \in 1..n |-> OrderFromRank(rank, i)]

\* -------------------------------------------------------- reRanking
\* the loop of the bmcSpecific branch: index is the next rank (uint8),
\* psuNumber the next slot of the copy of rotationRankOrder
\* (variant: the rank advances for every PSU, normal or not)
RECURSIVE BmcLoopEveryPsu(_, _, _, _, _, _)
BmcLoopEveryPsu(p, index, psuNumber, st, ord, orders) ==
    IF p > Len(ord)
    THEN [order |-> ord, rank |-> orders]
    ELSE LET o == IF st[p] = Normal THEN index ELSE 0
             ord1 == [ord EXCEPT ![p] = o]
         IN  IF psuNumber < Len(orders)
             THEN BmcLoopEveryPsu(p + 1, (index + 1) % 256, psuNumber + 1, st,
                                  ord1, [orders EXCEPT ![psuNumber + 1] = o])
             ELSE BmcLoopEveryPsu(p + 1, (index + 1) % 256, psuNumber, st,
                                  ord1, orders)

\* (variant: a PSU for which the copy of rotationRankOrder has no slot left
\* keeps the order it had)
RECURSIVE BmcLoopSkipsOverflow(_, _, _, _, _, _)
BmcLoopSkipsOverflow(p, index, psuNumber, st, ord, orders) ==
    IF p > Len(ord)
    THEN [order |-> ord, rank |-> orders]
    ELSE LET o == IF st[p] = Normal THEN index ELSE 0
             index1 == IF st[p] = Normal THEN (index + 1) % 256 ELSE index
             ord1 == [ord EXCEPT ![p] = o]
         IN  IF psuNumber < Len(orders)
             THEN BmcLoopSkipsOverflow(p + 1, index1, psuNumber + 1, st, ord1,
                                       [orders EXCEPT ![psuNumber + 1] = o])
             ELSE BmcLoopSkipsOverflow(p + 1, index, psuNumber, st, ord,
                                       orders)

RECURSIVE BmcLoop(_, _, _, _, _, _)
BmcLoop(p, index, psuNumber, st, ord, orders) ==
    IF p > Len(ord)
    THEN [order |-> ord, rank |-> orders]
    ELSE LET o == IF st[p] = Normal THEN index ELSE 0
             index1 == IF st[p] = Normal THEN (index + 1) % 256 ELSE index
             ord1 == [ord EXCEPT ![p] = o]
         IN  IF psuNumber < Len(orders)
             THEN BmcLoop(p + 1, index1, psuNumber + 1, st, ord1,
                          [orders EXCEPT ![psuNumber + 1] = o])
             ELSE BmcLoop(p + 1, index1, psuNumber, st, ord1, orders)

\* (variant: the fallback switches the algorithm and returns)
ReRankingNoFallback(alg, st, ord, rank, calls) ==
    IF alg = bmcSpecific
    THEN LET r == BmcLoop(1, 1, 0, st, ord, rank)
         IN  [alg |-> alg, order |-> r.order, rank |-> r.rank,
              calls |-> calls + 1]
    ELSE IF \E p \in DOMAIN st : st[p] = AcLost
         THEN [alg |-> bmcSpecific, order |-> ord, rank |-> rank,
               calls |-> calls + 1]
         ELSE [alg |-> alg, order |-> ord, rank |-> rank, calls |-> calls + 1]

\* (variant: userSpecific re-ranks whether or not a PSU has lost AC)
ReRankingAlways(alg, st, ord, rank, calls) ==
    LET r == BmcLoop(1, 1, 0, st, ord, rank)
    IN  IF alg = bmcSpecific
        THEN [alg |-> alg, order |-> r.order, rank |-> r.rank,
              calls |-> calls + 1]
        ELSE [alg |-> bmcSpecific, order |-> r.order, rank |-> r.rank,
              calls |-> calls + 2]

RECURSIVE ReRanking(_, _, _, _, _)
ReRanking(alg, st, ord, rank, calls) ==
    IF alg = bmcSpecific
    THEN LET r == BmcLoop(1, 1, 0, st, ord, rank)
         IN  [alg |-> alg, order |-> r.order, rank |-> r.rank,
              calls |-> calls + 1]
    ELSE IF \E p \in DOMAIN st : st[p] = AcLost
         THEN ReRanking(bmcSpecific, st, ord, rank, calls + 1)
         ELSE [alg |-> alg, order |-> ord, rank |-> rank, calls |-> calls + 1]

\* --------------------------------------------------------- rotateCR
GoodPSUCount(st) == Cardinality({p \in DOMAIN st : st[p] = Normal})

\* (variant: wraps one rank early)
RotateOrderWrapEarly(o, good) ==
    IF o = 0 THEN 0
    ELSE LET o1 == (o + 1) % 256 IN IF o1 >= good THEN 1 ELSE o1

\* psu->order++ on a uint8, wrapped to 1 above the number of good PSUs
RotateOrder(o, good) ==
    IF o = 0 THEN 0
    ELSE LET o1 == (o + 1) % 256 IN IF o1 > good THEN 1 ELSE o1

RotateOrders(ord, st) ==
    [p \in DOMAIN ord |-> RotateOrder(ord[p], GoodPSUCount(st))]

\* the rank writes of the rotate continuation: every PSU whose order is not 0
RotateWrites(ord, st) ==
    {<<p, RotateOrders(ord, st)[p]>> : p \in {q \in DOMAIN ord : ord[q] # 0}}

\* the rank writes of the reconfigure continuation
ConfigWrites(ord, st) ==
    {<<p, ord[p]>> : p \in {q \in DOMAIN ord : st[q] = Normal /\ ord[q] # 0}}

\* ------------------------------------------- the guards of the entries
ConfigCRDropped(sup, en, st) == ~sup \/ ~en \/ st = InProgress

\* (variant: the entry does not look at the status)
RotateCRDroppedNoStatus(sup, en, st) == ~sup \/ ~en

RotateCRDropped(sup, en, st) == ~sup \/ ~en \/ st = InProgress

\* warmRedundantTimer.expires_after aborts the waits that are pending,
\* async_wait adds the new continuation
ArmSettle(q, cont) ==
    Append([i \in DOMAIN q |-> [q[i] EXCEPT !.ec = "aborted"]], cont)

RemoveAt(q, i) == SubSeq(q, 1, i - 1) \o SubSeq(q, i + 1, Len(q))

\* (variant: the error path returns without touching the status)
SettleStatusErrorKeeps(ec) == IF ec = "error" THEN InProgress ELSE Completed

\* the status a settle continuation leaves behind
SettleStatus(ec) == Completed

\* (variant: only an aborted wait makes the continuation return early)
SettleReturnsAbortedOnly(ec) == ec = "aborted"

\* the continuation returns before any re-ranking, rotation or rank write:
\* ec == operation_aborted, else if (ec)
SettleReturns(ec) == ec # "ok"

\* the 8-bit addresses a table can hold
Addrs == 1..MaxAddr

\* the tables a PSUPresence configuration can deliver: each address once
Tables ==
    {t \in UNION {[1..n -> Addrs] : n \in 1..MaxAddr} :
        \A i \in DOMAIN t, j \in DOMAIN t : i # j => t[i] # t[j]}

\* the handler is no drift check that is followed
DriftIdle == [fired |-> FALSE, ran |-> FALSE, reads |-> <<>>, requests |-> 0]

\* a drift check that is followed and returned before the loop of checkCR
DriftReturned(lossy) == [DriftIdle EXCEPT !.fired = lossy]

\* no call of the register access layer is followed
PmbusIdle ==
    [op |-> "idle", i |-> 0, value |-> 0, tmpValue |-> -1, ret |-> -1,
     reg |-> 0, attempts |-> 0, matched |-> FALSE]

\* ------------------------------------------------------------------ Init
\* the state after construction, but for the history of the waits
InitEngine ==
    /\ crSupported \in BOOLEAN
    /\ enabled = FALSE
    /\ rotationEnabled = TRUE
    /\ algorithm = bmcSpecific
    /\ rankOrder = DefaultRankOrder
    /\ status = Completed
    /\ psuState = <<>>
    /\ order = <<>>
    /\ hw = <<>>
    /\ settle = <<>>
    /\ timerRotation = 0
    /\ timerCheck = 0
    /\ settingsPending = TRUE
    /\ scanned = FALSE
    /\ settled = "none"
    /\ lastEc = "none"
    /\ request = "none"
    /\ writes = {}
    /\ failed = 0
    /\ reRankCalls = 0
    /\ redundantCount = DefaultRedundantCount
    /\ puRedundantTimer = 0
    /\ evaluated = FALSE
    /\ psuPreviousWorkable = 0
    /\ association = Ok
    /\ classified = FALSE
    /\ compared = 0
    /\ emitted = <<>>
    /\ journal = <<>>
    /\ addrTable = <<0>>
    /\ keepAliveTimer = 0
    /\ psuPresence = {}
    /\ poll = [cycle |-> 0, alive |-> {}, events |-> <<>>, rescans |-> 0]
    /\ lastEvent = [a \in Addrs |-> "none"]
    /\ burst = [last |-> FALSE, count |-> 0]
    /\ driftCheck = DriftIdle
    /\ pmbus = PmbusIdle

Init == InitEngine /\ rearmed = "off"

\* Init, with the waits of timerRotation followed
InitWaits == InitEngine /\ rearmed = "no"

\* ------------------------------------------------- configCR, rotateCR
\* The synchronous part of configCR(reConfig), called with the enablement en
\* the caller has at that point.  Leaves the timers to the caller.
ConfigCR(reConfig, en, faulty) ==
    IF ConfigCRDropped(crSupported, en, status)
    THEN /\ UNCHANGED <<status, hw, settle>>
         /\ writes' = {}
    ELSE /\ status' = InProgress
         /\ writes' = WarmWrites(crSupported, psuState)
         /\ \E ok \in Transfers(faulty, WarmWrites(crSupported, psuState)) :
                hw' = WritePmbus(hw, WarmWrites(crSupported, psuState), ok)
         /\ settle' = ArmSettle(settle, [op |-> "configCR",
                                         reConfig |-> reConfig,
                                         ec |-> "pending"])

\* timerRotation.cancel(); timerCheck.cancel(); startRotateCR(); startCRCheck()
TimerAfterConfigCR(en, waits) ==
    IF ConfigCRDropped(crSupported, en, status) THEN waits
    ELSE StartTimer(Cancel(waits))

RotateCR(faulty) ==
    IF RotateCRDropped(crSupported, enabled, status)
    THEN /\ UNCHANGED <<status, hw, settle>>
         /\ writes' = {}
    ELSE /\ status' = InProgress
         /\ writes' = WarmWrites(crSupported, psuState)
         /\ \E ok \in Transfers(faulty, WarmWrites(crSupported, psuState)) :
                hw' = WritePmbus(hw, WarmWrites(crSupported, psuState), ok)
         /\ settle' = ArmSettle(settle, [op |-> "rotateCR",
                                         reConfig |-> FALSE,
                                         ec |-> "pending"])

\* a wait that completed is no longer pending
Complete(waits) == waits - 1

\* ----------------------------------------------------------- the handlers
\* the history of the waits of timerRotation, where it is followed
Rearmed(by) == rearmed' = IF rearmed = "off" THEN rearmed ELSE by

\* what a handler that is no settle continuation leaves in the history
NoSettle == settled' = "none" /\ lastEc' = "none" /\ reRankCalls' = 0

\* what a handler that is no wait of timerCheck leaves of the drift check
NoDriftCheck == driftCheck' = DriftIdle

\* what a handler that neither arms nor is the wait of puRedundantTimer
\* leaves of the classifier
NoEvaluation ==
    /\ classified' = FALSE
    /\ compared' = 0
    /\ emitted' = <<>>
    /\ journal' = <<>>
    /\ burst' = [burst EXCEPT !.last = FALSE]
    /\ UNCHANGED classifier

\* checkRedundancyEvent: the debounce wait is replaced by a new one, unless
\* redundancy is unsupported or disabled.  The classifier is followed only
\* where classify is set.
CheckRedundancyEvent(classify) ==
    /\ classified' = FALSE
    /\ compared' = 0
    /\ emitted' = <<>>
    /\ journal' = <<>>
    /\ puRedundantTimer' =
           IF ~classify \/ ~crSupported \/ ~enabled THEN puRedundantTimer
           ELSE StartTimer(puRedundantTimer)
    /\ UNCHANGED <<redundantCount, evaluated, psuPreviousWorkable,
                   association>>

\* The reply of the settings service to the constructor's GetAll.
SettingsReply(faulty) ==
    /\ UNCHANGED pmbus
    /\ UNCHANGED presence
    /\ NoDriftCheck
    /\ NoEvaluation
    /\ failed' = 0
    /\ settingsPending
    /\ settingsPending' = FALSE
    /\ NoSettle
    /\ UNCHANGED <<crSupported, psuState, order, scanned>>
    /\ \/ \* ec, or a property is missing
          /\ request' = "none"
          /\ writes' = {}
          /\ Rearmed("message")
          /\ UNCHANGED <<enabled, rotationEnabled, algorithm, rankOrder,
                         status, hw, settle, timerRotation, timerCheck>>
       \/ \E en \in BOOLEAN, rot \in BOOLEAN,
             alg \in {bmcSpecific, userSpecific},
             rank \in RankInputs \cup {DefaultRankOrder} :
          /\ enabled' = en
          /\ algorithm' = alg
          /\ rotationEnabled' = rot
          /\ rankOrder' = rank
          /\ request' = "configCR"
          /\ ConfigCR(FALSE, en, faulty)
          /\ Rearmed("outside")
          /\ timerRotation' =
                 StartTimer(Cancel(TimerAfterConfigCR(en, timerRotation)))
          /\ timerCheck' = TimerAfterConfigCR(en, timerCheck)

\* createPSU(): posted by the constructor and called again after a change of
\* the inventory; asks for the fleet and restarts both periodic timers.
CreatePSU ==
    /\ UNCHANGED pmbus
    /\ UNCHANGED presence
    /\ NoDriftCheck
    /\ NoEvaluation
    /\ failed' = 0
    /\ scanned' = TRUE
    /\ Rearmed("outside")
    /\ timerRotation' = StartTimer(timerRotation)
    /\ timerCheck' = StartTimer(timerCheck)
    /\ NoSettle
    /\ request' = "none"
    /\ writes' = {}
    /\ UNCHANGED <<crSupported, enabled, rotationEnabled, algorithm, rankOrder,
                   status, psuState, order, hw, settle, settingsPending>>

\* The GetAll reply for a pmbus configuration that is not in the fleet yet;
\* the register of a PSU new to the engine holds no rank.  The settings
\* service, asked first, has answered by then.
PsuDiscovered(max) ==
    /\ UNCHANGED pmbus
    /\ UNCHANGED presence
    /\ NoDriftCheck
    /\ NoEvaluation
    /\ failed' = 0
    /\ scanned
    /\ ~settingsPending
    /\ numberOfPSU < max
    /\ \E st \in {Normal, AcLost} : psuState' = Append(psuState, st)
    /\ order' = Append(order, OrderFromRank(rankOrder, numberOfPSU + 1))
    /\ hw' = Append(hw, 0)
    /\ NoSettle
    /\ request' = "none"
    /\ writes' = {}
    /\ Rearmed("message")
    /\ UNCHANGED <<crSupported, enabled, rotationEnabled, algorithm, rankOrder,
                   status, settle, timerRotation, timerCheck, settingsPending,
                   scanned>>

\* eventCollect: a PSU reports functional or not; the loss of AC of a PSU
\* that holds a rank is recorded when observed is set; checkRedundancyEvent
\* is called last
EventCollect(observed, classify) ==
    /\ UNCHANGED pmbus
    /\ UNCHANGED presence
    /\ NoDriftCheck
    /\ CheckRedundancyEvent(classify)
    /\ burst' = IF classify
                THEN [last |-> TRUE,
                      count |-> IF burst.count < MaxBurst
                                THEN burst.count + 1 ELSE burst.count]
                ELSE burst
    /\ ~settingsPending
    /\ \E p \in PSUs, functional \in BOOLEAN :
          /\ psuState' = [psuState EXCEPT
                             ![p] = IF functional THEN Normal ELSE AcLost]
          /\ failed' = IF /\ observed
                          /\ psuState[p] = Normal /\ ~functional
                          /\ order[p] # 0
                       THEN p ELSE 0
    /\ NoSettle
    /\ request' = "none"
    /\ writes' = {}
    /\ Rearmed("message")
    /\ UNCHANGED <<crSupported, enabled, rotationEnabled, algorithm, rankOrder,
                   status, order, hw, settle, timerRotation, timerCheck,
                   settingsPending, scanned>>

\* refreshConfig for a change that carries no RotationRankOrder: both periodic
\* timers are restarted and the configuration saved.
RefreshNoRank ==
    /\ UNCHANGED pmbus
    /\ UNCHANGED presence
    /\ NoDriftCheck
    /\ NoEvaluation
    /\ failed' = 0
    /\ ~settingsPending
    /\ Rearmed("outside")
    /\ timerRotation' = StartTimer(Cancel(timerRotation))
    /\ timerCheck' = StartTimer(Cancel(timerCheck))
    /\ NoSettle
    /\ request' = "none"
    /\ writes' = {}
    /\ UNCHANGED <<crSupported, rankOrder, status, psuState, order, hw, settle,
                   settingsPending, scanned>>

PolicyEnabled ==
    /\ enabled' = ~enabled
    /\ UNCHANGED <<rotationEnabled, algorithm>>
    /\ RefreshNoRank

PolicyRotationEnabled ==
    /\ rotationEnabled' = ~rotationEnabled
    /\ UNCHANGED <<enabled, algorithm>>
    /\ RefreshNoRank

PolicyAlgorithm ==
    /\ algorithm' = IF algorithm = bmcSpecific THEN userSpecific
                    ELSE bmcSpecific
    /\ UNCHANGED <<enabled, rotationEnabled>>
    /\ RefreshNoRank

\* refreshConfig for a change of RotationRankOrder: the orders are taken from
\* the new rank order by position, then configCR(false)
PolicyRankOrder(faulty) ==
    /\ UNCHANGED pmbus
    /\ UNCHANGED presence
    /\ NoDriftCheck
    /\ NoEvaluation
    /\ failed' = 0
    /\ ~settingsPending
    /\ \E rank \in (RankInputs \cup {DefaultRankOrder}) \ {rankOrder} :
          /\ rankOrder' = rank
          /\ order' = OrdersFromRank(rank, numberOfPSU)
    /\ request' = "configCR"
    /\ ConfigCR(FALSE, enabled, faulty)
    /\ Rearmed("outside")
    /\ timerRotation' =
           TimerAfterConfigCR(enabled, StartTimer(Cancel(timerRotation)))
    /\ timerCheck' =
           TimerAfterConfigCR(enabled, StartTimer(Cancel(timerCheck)))
    /\ NoSettle
    /\ UNCHANGED <<crSupported, enabled, rotationEnabled, algorithm,
                   psuState, settingsPending, scanned>>

\* the wait of startRotateCR completes
RotationFire(faulty) ==
    /\ UNCHANGED pmbus
    /\ UNCHANGED presence
    /\ NoDriftCheck
    /\ NoEvaluation
    /\ UNCHANGED failed
    /\ timerRotation > 0
    /\ IF crSupported /\ rotationEnabled
       THEN request' = "rotateCR" /\ RotateCR(faulty)
       ELSE request' = "none" /\ writes' = {}
            /\ UNCHANGED <<status, hw, settle>>
    /\ Rearmed("no")
    /\ timerRotation' = StartTimer(Complete(timerRotation))
    /\ NoSettle
    /\ UNCHANGED <<crSupported, enabled, rotationEnabled, algorithm, rankOrder,
                   psuState, order, timerCheck, settingsPending, scanned>>

\* checkCR reads the register of the PSUs in state normal, in fleet order,
\* until one reads 0; rd is the set of PSUs whose read succeeds
ReadsZero(regs, st, rd) ==
    \E p \in DOMAIN regs : st[p] = Normal /\ p \in rd /\ regs[p] = 0

\* The reads of one drift check that succeed: all of them, or any part of
\* them when the bus is faulty.
Reads(faulty) == IF faulty THEN SUBSET PSUs ELSE {PSUs}

\* (variant: the loop goes on after the call of configCR)
RECURSIVE CheckCRLoopReadsAll(_, _, _, _, _)
CheckCRLoopReadsAll(p, regs, st, rd, reads) ==
    IF p > Len(regs)
    THEN [reads |-> reads, requests |-> 0]
    ELSE IF st[p] # Normal
    THEN CheckCRLoopReadsAll(p + 1, regs, st, rd, reads)
    ELSE LET value == IF p \in rd THEN regs[p] ELSE -1
             rest == CheckCRLoopReadsAll(p + 1, regs, st, rd,
                                         Append(reads, <<p, value>>))
         IN  IF value = 0
             THEN [rest EXCEPT !.requests = @ + 1]
             ELSE rest

\* the loop of checkCR from the PSU at position p on: a PSU in state normal
\* is read into an int that starts as -1 and keeps it when the read fails;
\* at the first 0 configCR(true) is called and checkCR returns
RECURSIVE CheckCRLoop(_, _, _, _, _)
CheckCRLoop(p, regs, st, rd, reads) ==
    IF p > Len(regs)
    THEN [reads |-> reads, requests |-> 0]
    ELSE IF st[p] # Normal
    THEN CheckCRLoop(p + 1, regs, st, rd, reads)
    ELSE LET value == IF p \in rd THEN regs[p] ELSE -1
         IN  IF value = 0
             THEN [reads |-> Append(reads, <<p, value>>), requests |-> 1]
             ELSE CheckCRLoop(p + 1, regs, st, rd,
                              Append(reads, <<p, value>>))

\* the wait of startCRCheck completes; the reads of checkCR may fail when
\* lossy is set, and the cycle is then recorded
CheckFire(faulty, lossy) ==
    /\ UNCHANGED pmbus
    /\ UNCHANGED presence
    /\ NoEvaluation
    /\ UNCHANGED failed
    /\ timerCheck > 0
    /\ IF ~crSupported
       THEN /\ request' = "none" /\ writes' = {}
            /\ driftCheck' = DriftReturned(lossy)
            /\ Rearmed("no")
            /\ UNCHANGED <<status, hw, settle, timerRotation>>
       ELSE IF ~enabled
       THEN /\ request' = "none"
            /\ driftCheck' = DriftReturned(lossy)
            /\ writes' = WarmWrites(crSupported, psuState)
            /\ \E ok \in Transfers(faulty, WarmWrites(crSupported, psuState)) :
                   hw' = WritePmbus(hw, WarmWrites(crSupported, psuState), ok)
            /\ Rearmed("no")
            /\ UNCHANGED <<status, settle, timerRotation>>
       ELSE \E rd \in Reads(lossy) :
               /\ driftCheck' =
                      IF lossy
                      THEN [fired |-> TRUE, ran |-> TRUE]
                               @@ CheckCRLoop(1, hw, psuState, rd, <<>>)
                      ELSE DriftIdle
               /\ IF ReadsZero(hw, psuState, rd)
                  THEN /\ request' = "configCR"
                       /\ ConfigCR(TRUE, enabled, faulty)
                       /\ Rearmed(IF ConfigCRDropped(crSupported, enabled,
                                                      status)
                                  THEN "no" ELSE "engine")
                       /\ timerRotation' =
                              TimerAfterConfigCR(enabled, timerRotation)
                  ELSE /\ request' = "none" /\ writes' = {}
                       /\ Rearmed("no")
                       /\ UNCHANGED <<status, hw, settle, timerRotation>>
    /\ timerCheck' = StartTimer(Complete(timerCheck))
    /\ NoSettle
    /\ UNCHANGED <<crSupported, enabled, rotationEnabled, algorithm, rankOrder,
                   psuState, order, settingsPending, scanned>>

\* the error codes a continuation can be called with
Outcomes(cont) == IF cont.ec = "aborted" THEN {"aborted"} ELSE {"ok", "error"}

\* the continuation of configCR is called
ConfigSettle(faulty) ==
    \E i \in DOMAIN settle :
        /\ UNCHANGED pmbus
        /\ UNCHANGED presence
        /\ NoDriftCheck
        /\ NoEvaluation
        /\ UNCHANGED failed
        /\ settle[i].op = "configCR"
        /\ settle' = RemoveAt(settle, i)
        /\ settled' = "configCR"
        /\ request' = "none"
        /\ \E ec \in Outcomes(settle[i]) :
              /\ lastEc' = ec
              /\ status' = SettleStatus(ec)
              /\ IF SettleReturns(ec)
                 THEN /\ writes' = {}
                      /\ reRankCalls' = 0
                      /\ UNCHANGED <<algorithm, order, rankOrder, hw>>
                 ELSE LET r == IF settle[i].reConfig
                               THEN ReRanking(algorithm, psuState, order,
                                              rankOrder, 0)
                               ELSE [alg |-> algorithm, order |-> order,
                                     rank |-> rankOrder, calls |-> 0]
                          ws == ConfigWrites(r.order, psuState)
                      IN  /\ algorithm' = r.alg
                          /\ order' = r.order
                          /\ rankOrder' = r.rank
                          /\ reRankCalls' = r.calls
                          /\ writes' = ws
                          /\ \E ok \in Transfers(faulty, ws) :
                                 hw' = WritePmbus(hw, ws, ok)
        /\ Rearmed("no")
        /\ UNCHANGED <<crSupported, enabled, rotationEnabled, psuState,
                       timerRotation, timerCheck, settingsPending, scanned>>

\* the continuation of rotateCR is called
RotateSettle(faulty) ==
    \E i \in DOMAIN settle :
        /\ UNCHANGED pmbus
        /\ UNCHANGED presence
        /\ NoDriftCheck
        /\ NoEvaluation
        /\ UNCHANGED failed
        /\ settle[i].op = "rotateCR"
        /\ settle' = RemoveAt(settle, i)
        /\ settled' = "rotateCR"
        /\ request' = "none"
        /\ reRankCalls' = 0
        /\ \E ec \in Outcomes(settle[i]) :
              /\ lastEc' = ec
              /\ status' = SettleStatus(ec)
              /\ IF SettleReturns(ec)
                 THEN /\ writes' = {}
                      /\ UNCHANGED <<order, rankOrder, hw>>
                 ELSE /\ order' = RotateOrders(order, psuState)
                      /\ rankOrder' = RotateOrders(order, psuState)
                      /\ writes' = RotateWrites(order, psuState)
                      /\ \E ok \in Transfers(faulty, RotateWrites(order, psuState)) :
                             hw' = WritePmbus(hw, RotateWrites(order, psuState),
                                              ok)
        /\ Rearmed("no")
        /\ UNCHANGED <<crSupported, enabled, rotationEnabled, algorithm,
                       psuState, timerRotation, timerCheck, settingsPending,
                       scanned>>

\* ------------------------------------------------ the health classifier
\* (variant: the count of the previous evaluation is looked at before the
\* fleet size)
IncreasedGapFirst(workable, previous, count, total) ==
    IF workable >= count
    THEN IF previous < count
         THEN [journal |-> <<"DegradedFromNonRedundant">>,
               classes |-> <<Warning>>]
         ELSE IF workable = total
         THEN [journal |-> <<"RedundancyRegained">>, classes |-> <<Ok>>]
         ELSE [journal |-> <<>>, classes |-> <<>>]
    ELSE IF previous = 0
    THEN [journal |-> <<"NonRedundantFromInsufficient">>,
          classes |-> <<NonCritical>>]
    ELSE [journal |-> <<>>, classes |-> <<>>]

\* (variant: sufficient from insufficient whatever the previous count)
IncreasedAnyInsufficient(workable, previous, count, total) ==
    IF workable >= count
    THEN IF workable = total
         THEN [journal |-> <<"RedundancyRegained">>, classes |-> <<Ok>>]
         ELSE IF previous < count
         THEN [journal |-> <<"DegradedFromNonRedundant">>,
               classes |-> <<Warning>>]
         ELSE [journal |-> <<>>, classes |-> <<>>]
    ELSE [journal |-> <<"NonRedundantFromInsufficient">>,
          classes |-> <<NonCritical>>]

\* the branch psuWorkable > psuPreviousWorkable of an evaluation: the
\* messages sent to the journal and the health classes set, in order
Increased(workable, previous, count, total) ==
    IF workable >= count
    THEN IF workable = total
         THEN [journal |-> <<"RedundancyRegained">>, classes |-> <<Ok>>]
         ELSE IF previous < count
         THEN [journal |-> <<"DegradedFromNonRedundant">>,
               classes |-> <<Warning>>]
         ELSE [journal |-> <<>>, classes |-> <<>>]
    ELSE IF previous = 0
    THEN [journal |-> <<"NonRedundantFromInsufficient">>,
          classes |-> <<NonCritical>>]
    ELSE [journal |-> <<>>, classes |-> <<>>]

\* (variant: redundancy counts as lost only from above redundantCount)
DecreasedLostStrict(workable, previous, count, total) ==
    IF workable >= count
    THEN [journal |-> <<"RedundancyDegraded">> \o
                      (IF previous = total THEN <<"DegradedFromRedundant">>
                       ELSE <<>>),
          classes |-> <<Warning>>]
    ELSE LET lost == previous > count
             some == lost /\ workable > 0
         IN  [journal |-> (IF lost THEN <<"RedundancyLost">> ELSE <<>>) \o
                          (IF some THEN <<"NonRedundantSufficient">>
                           ELSE <<>>) \o
                          (IF workable = 0 THEN <<"NonRedundantInsufficient">>
                           ELSE <<>>),
              classes |-> (IF some THEN <<Warning>> ELSE <<>>) \o
                          (IF workable = 0 THEN <<Critical>> ELSE <<>>)]

\* the branch psuWorkable < psuPreviousWorkable
Decreased(workable, previous, count, total) ==
    IF workable >= count
    THEN [journal |-> <<"RedundancyDegraded">> \o
                      (IF previous = total THEN <<"DegradedFromRedundant">>
                       ELSE <<>>),
          classes |-> <<Warning>>]
    ELSE LET lost == previous >= count
             some == lost /\ workable > 0
         IN  [journal |-> (IF lost THEN <<"RedundancyLost">> ELSE <<>>) \o
                          (IF some THEN <<"NonRedundantSufficient">>
                           ELSE <<>>) \o
                          (IF workable = 0 THEN <<"NonRedundantInsufficient">>
                           ELSE <<>>),
              classes |-> (IF some THEN <<Warning>> ELSE <<>>) \o
                          (IF workable = 0 THEN <<Critical>> ELSE <<>>)]

\* (variant: a tie is taken for a decrease)
ClassifyTies(workable, previous, count, total) ==
    IF workable > previous THEN Increased(workable, previous, count, total)
    ELSE Decreased(workable, previous, count, total)

\* one evaluation, from the count of normal PSUs, the count of the previous
\* evaluation, redundantCount() and numberOfPSU
Classify(workable, previous, count, total) ==
    IF workable > previous THEN Increased(workable, previous, count, total)
    ELSE IF workable < previous
    THEN Decreased(workable, previous, count, total)
    ELSE [journal |-> <<>>, classes |-> <<>>]

\* the count an evaluation compares with: the static psuPreviousWorkable,
\* initialised with numberOfPSU by the first evaluation
Previous == IF evaluated THEN psuPreviousWorkable ELSE numberOfPSU

\* the wait of puRedundantTimer completes: one evaluation
PuRedundantFire ==
    /\ UNCHANGED pmbus
    /\ UNCHANGED presence
    /\ NoDriftCheck
    /\ puRedundantTimer > 0
    /\ puRedundantTimer' = Complete(puRedundantTimer)
    /\ LET workable == GoodPSUCount(psuState)
           r == Classify(workable, Previous, redundantCount, numberOfPSU)
       IN  /\ evaluated' = TRUE
           /\ psuPreviousWorkable' = workable
           /\ association' = IF r.classes = <<>> THEN association
                             ELSE r.classes[Len(r.classes)]
           /\ emitted' = r.classes
           /\ journal' = r.journal
    /\ classified' = TRUE
    /\ compared' = Previous
    /\ burst' = [last |-> FALSE, count |-> 0]
    /\ NoSettle
    /\ request' = "none"
    /\ writes' = {}
    /\ Rearmed("no")
    /\ UNCHANGED <<crSupported, enabled, rotationEnabled, algorithm, rankOrder,
                   status, psuState, order, hw, settle, timerRotation,
                   timerCheck, settingsPending, scanned, failed,
                   redundantCount>>

\* The reply of the object mapper to createPSU's GetSubTree: the GetAll calls
\* go out and checkRedundancyEvent is called.
SubtreeReply(classify) ==
    /\ UNCHANGED pmbus
    /\ UNCHANGED presence
    /\ NoDriftCheck
    /\ scanned
    /\ ~settingsPending
    /\ CheckRedundancyEvent(classify)
    /\ burst' = [burst EXCEPT !.last = FALSE]
    /\ failed' = 0
    /\ NoSettle
    /\ request' = "none"
    /\ writes' = {}
    /\ Rearmed("message")
    /\ UNCHANGED <<crSupported, enabled, rotationEnabled, algorithm, rankOrder,
                   status, psuState, order, hw, settle, timerRotation,
                   timerCheck, settingsPending, scanned>>

\* The GetAll reply for a PURedundancy configuration: RedundantCount.
RedundancyDiscovered ==
    /\ UNCHANGED pmbus
    /\ UNCHANGED presence
    /\ NoDriftCheck
    /\ scanned
    /\ ~settingsPending
    /\ \E count \in 0..MaxRedundantCount : redundantCount' = count
    /\ burst' = [burst EXCEPT !.last = FALSE]
    /\ classified' = FALSE
    /\ compared' = 0
    /\ emitted' = <<>>
    /\ journal' = <<>>
    /\ failed' = 0
    /\ NoSettle
    /\ request' = "none"
    /\ writes' = {}
    /\ Rearmed("message")
    /\ UNCHANGED <<crSupported, enabled, rotationEnabled, algorithm, rankOrder,
                   status, psuState, order, hw, settle, timerRotation,
                   timerCheck, settingsPending, scanned, puRedundantTimer,
                   evaluated, psuPreviousWorkable, association>>

\* Every register transfer gets through.
Next ==
    \/ SettingsReply(FALSE)
    \/ CreatePSU
    \/ PsuDiscovered(MaxPSU)
    \/ EventCollect(FALSE, FALSE)
    \/ PolicyEnabled
    \/ PolicyRotationEnabled
    \/ PolicyAlgorithm
    \/ PolicyRankOrder(FALSE)
    \/ RotationFire(FALSE)
    \/ CheckFire(FALSE, FALSE)
    \/ ConfigSettle(FALSE)
    \/ RotateSettle(FALSE)

Spec == Init /\ [][Next]_vars

\* Register transfers may fail, on a smaller fleet.
NextFaulty ==
    \/ SettingsReply(TRUE)
    \/ CreatePSU
    \/ PsuDiscovered(MaxFaultyPSU)
    \/ EventCollect(FALSE, FALSE)
    \/ PolicyEnabled
    \/ PolicyRotationEnabled
    \/ PolicyAlgorithm
    \/ PolicyRankOrder(TRUE)
    \/ RotationFire(TRUE)
    \/ CheckFire(TRUE, TRUE)
    \/ ConfigSettle(TRUE)
    \/ RotateSettle(TRUE)

\* The event loop calls a continuation whose wait has ended.
FaultySpec ==
    /\ Init
    /\ [][NextFaulty]_vars
    /\ WF_vars(ConfigSettle(TRUE))
    /\ WF_vars(RotateSettle(TRUE))

\* Next, with the loss of AC of a ranked PSU recorded.
NextObserved ==
    \/ SettingsReply(FALSE)
    \/ CreatePSU
    \/ PsuDiscovered(MaxPSU)
    \/ EventCollect(TRUE, FALSE)
    \/ PolicyEnabled
    \/ PolicyRotationEnabled
    \/ PolicyAlgorithm
    \/ PolicyRankOrder(FALSE)
    \/ RotationFire(FALSE)
    \/ CheckFire(FALSE, FALSE)
    \/ ConfigSettle(FALSE)
    \/ RotateSettle(FALSE)

\* The event loop calls every handler whose wait has ended: both periodic
\* timers fire and the settle continuations are called.
FairSpec ==
    /\ Init
    /\ [][NextObserved]_vars
    /\ WF_vars(RotationFire(FALSE))
    /\ WF_vars(CheckFire(FALSE, FALSE))
    /\ WF_vars(ConfigSettle(FALSE))
    /\ WF_vars(RotateSettle(FALSE))

\* The waits of timerRotation followed one by one.  A wait completes unless
\* it is replaced by a new one first (expires_after starts the period
\* again), so the timer is sure to fire only if the handlers stop replacing
\* its wait; the drift check fires, whatever else happens, because it
\* re-arms itself and its period is the shortest, and the settle
\* continuations are called.
RotationSpec ==
    /\ InitWaits
    /\ [][Next]_vars
    /\ WF_vars(CheckFire(FALSE, FALSE))
    /\ WF_vars(ConfigSettle(FALSE))
    /\ WF_vars(RotateSettle(FALSE))
    /\ ([]<>(rearmed \in {"outside", "engine"})
           \/ WF_vars(RotationFire(FALSE)))

\* The drift check with reads that may fail; the rotation switch and the
\* algorithm stay as the settings service delivered them.
NextDrift ==
    \/ SettingsReply(FALSE)
    \/ CreatePSU
    \/ PsuDiscovered(MaxPSU)
    \/ EventCollect(FALSE, FALSE)
    \/ PolicyEnabled
    \/ PolicyRankOrder(FALSE)
    \/ RotationFire(FALSE)
    \/ CheckFire(FALSE, TRUE)
    \/ ConfigSettle(FALSE)
    \/ RotateSettle(FALSE)

DriftSpec == Init /\ [][NextDrift]_vars

\* ------------------------------------------------ the presence poller
\* the engine and the classifier
handlers == <<crSupported, enabled, rotationEnabled, algorithm, rankOrder,
              status, psuState, order, hw, settle, timerRotation, timerCheck,
              settingsPending, scanned, settled, lastEc, request, writes,
              failed, reRankCalls, redundantCount, puRedundantTimer,
              evaluated, psuPreviousWorkable, association, classified,
              compared, emitted, journal, rearmed, burst,
              driftCheck>>

\* (variant: every address that answers is journalled as inserted)
RECURSIVE KeepAliveLoopEverySuccess(_, _, _, _, _, _)
KeepAliveLoopEverySuccess(i, table, alive, present, events, newPSUFound) ==
    IF i > Len(table)
    THEN [present |-> present, events |-> events, newPSUFound |-> newPSUFound]
    ELSE LET addr == table[i] % 256
         IN  IF i \in alive
             THEN KeepAliveLoopEverySuccess(i + 1, table, alive,
                      present \cup {addr},
                      Append(events, <<addr, "inserted">>), TRUE)
             ELSE IF addr \in present
             THEN KeepAliveLoopEverySuccess(i + 1, table, alive,
                      present \ {addr},
                      Append(events, <<addr, "removed">>), newPSUFound)
             ELSE KeepAliveLoopEverySuccess(i + 1, table, alive, present,
                      events, newPSUFound)

\* the loop of keepAlive from position i of the table on; alive is the set
\* of the positions whose pingPSU returns 0; the address is taken as uint8
RECURSIVE KeepAliveLoop(_, _, _, _, _, _)
KeepAliveLoop(i, table, alive, present, events, newPSUFound) ==
    IF i > Len(table)
    THEN [present |-> present, events |-> events, newPSUFound |-> newPSUFound]
    ELSE LET addr == table[i] % 256
         IN  IF i \in alive
             THEN IF addr \notin present
                  THEN KeepAliveLoop(i + 1, table, alive, present \cup {addr},
                           Append(events, <<addr, "inserted">>), TRUE)
                  ELSE KeepAliveLoop(i + 1, table, alive, present, events,
                           newPSUFound)
             ELSE IF addr \in present
                  THEN KeepAliveLoop(i + 1, table, alive, present \ {addr},
                           Append(events, <<addr, "removed">>), newPSUFound)
                  ELSE KeepAliveLoop(i + 1, table, alive, present, events,
                           newPSUFound)

\* the last journal entry of each address after the entries of a cycle
RECURSIVE Journalled(_, _)
Journalled(last, events) ==
    IF events = <<>> THEN last
    ELSE Journalled([last EXCEPT ![events[1][1]] = events[1][2]],
                    Tail(events))

\* The GetAll reply for a PSUPresence configuration: the table is replaced
\* and, unless the bus cannot be opened, keepAliveCheck() arms the poller.
PresenceDiscovered ==
    /\ scanned
    /\ \E table \in Tables, opened \in BOOLEAN :
          /\ addrTable' = table
          /\ keepAliveTimer' = IF opened THEN StartTimer(keepAliveTimer)
                               ELSE keepAliveTimer
    /\ UNCHANGED <<psuPresence, poll, lastEvent>>
    /\ UNCHANGED <<handlers, pmbus>>

\* the wait of keepAliveCheck completes: keepAlive, then keepAliveCheck
KeepAliveFire ==
    /\ keepAliveTimer > 0
    /\ \E alive \in SUBSET DOMAIN addrTable :
          LET r == KeepAliveLoop(1, addrTable, alive, psuPresence, <<>>, FALSE)
          IN  /\ psuPresence' = r.present
              /\ poll' = [cycle |-> 1 - poll.cycle,
                          alive |-> {addrTable[i] % 256 : i \in alive},
                          events |-> r.events,
                          rescans |-> IF r.newPSUFound THEN 1 ELSE 0]
              /\ lastEvent' = Journalled(lastEvent, r.events)
    /\ keepAliveTimer' = StartTimer(Complete(keepAliveTimer))
    /\ UNCHANGED addrTable
    /\ UNCHANGED <<handlers, pmbus>>

\* The poller, with the inventory scan that starts it.
NextPresence ==
    \/ CreatePSU
    \/ PresenceDiscovered
    \/ KeepAliveFire

PresenceSpec == Init /\ [][NextPresence]_vars

\* ------------------------------------ the register access, by attempt
\* the condition of both do-while loops, after the body: i++ < retryCount
\* and the attempt did not get what it was made for
\* (variant: one more round)
LoopGoesOnInclusive(i, done) == i <= retryCount /\ ~done

LoopGoesOn(i, done) == i < retryCount /\ ~done

\* writePmbus is entered: i = 0, tmpValue = -1
CallWritePmbus ==
    /\ pmbus.op \in {"idle", "returned"}
    /\ \E value \in 0..MaxOrderValue :
          pmbus' = [op |-> "write", i |-> 0, value |-> value, tmpValue |-> -1,
                    ret |-> -1, reg |-> pmbus.reg, attempts |-> 0,
                    matched |-> FALSE]
    /\ UNCHANGED handlers
    /\ UNCHANGED presence

\* One round of the loop of writePmbus.  i2cSet fails, or gets through and
\* the register takes the value, or gets through and the register keeps its
\* content; i2cGet fails and leaves tmpValue, or reads the register.
WriteAttempt ==
    /\ pmbus.op = "write"
    /\ \E set \in {"fail", "stored", "kept"}, get \in BOOLEAN :
          LET reg1 == IF set = "stored" THEN pmbus.value ELSE pmbus.reg
              read == set # "fail" /\ get
              tmp1 == IF read THEN reg1 ELSE pmbus.tmpValue
          IN  pmbus' = [pmbus EXCEPT
                          !.reg = reg1,
                          !.tmpValue = tmp1,
                          !.i = pmbus.i + 1,
                          !.attempts = pmbus.attempts + 1,
                          !.matched = read /\ reg1 = pmbus.value,
                          !.op = IF LoopGoesOn(pmbus.i, tmp1 = pmbus.value)
                                 THEN "write" ELSE "returned"]
    /\ UNCHANGED handlers
    /\ UNCHANGED presence

\* readPmbus is entered by checkCR: order = -1, ret = -1
CallReadPmbus ==
    /\ pmbus.op \in {"idle", "returned"}
    /\ \E reg \in 0..MaxOrderValue :
          pmbus' = [op |-> "read", i |-> 0, value |-> -1, tmpValue |-> -1,
                    ret |-> -1, reg |-> reg, attempts |-> 0,
                    matched |-> FALSE]
    /\ UNCHANGED handlers
    /\ UNCHANGED presence

\* One round of the loop of readPmbus: i2cGet fails and leaves value, or
\* reads the register.
ReadAttempt ==
    /\ pmbus.op = "read"
    /\ \E get \in BOOLEAN :
          pmbus' = [pmbus EXCEPT
                      !.ret = IF get THEN 0 ELSE -1,
                      !.value = IF get THEN pmbus.reg ELSE pmbus.value,
                      !.i = pmbus.i + 1,
                      !.attempts = pmbus.attempts + 1,
                      !.matched = get,
                      !.op = IF LoopGoesOn(pmbus.i, get)
                             THEN "read" ELSE "returned"]
    /\ UNCHANGED handlers
    /\ UNCHANGED presence

\* The calls of the register access layer, each followed to its return.
NextPmbus ==
    \/ CallWritePmbus
    \/ WriteAttempt
    \/ CallReadPmbus
    \/ ReadAttempt

PmbusSpec == Init /\ [][NextPmbus]_vars

\* The handlers that the health classifier depends on, with the classifier
\* followed: the handlers left out write neither a PSU state, nor the
\* enablement, nor RedundantCount, nor the fleet.
NextClassifier ==
    \/ SettingsReply(FALSE)
    \/ CreatePSU
    \/ SubtreeReply(TRUE)
    \/ RedundancyDiscovered
    \/ PsuDiscovered(MaxClassifiedPSU)
    \/ EventCollect(FALSE, TRUE)
    \/ PolicyEnabled
    \/ PuRedundantFire

ClassifierSpec == Init /\ [][NextClassifier]_vars

\* ================================================================ claims
\* the ranks 1..k over the PSUs in state normal, in fleet order, 0 elsewhere
Contiguous(ord, st) ==
    \A p \in DOMAIN ord :
        ord[p] = IF st[p] = Normal
                 THEN Cardinality({q \in 1..p : st[q] = Normal})
                 ELSE 0

\* a continuation of configCR(true) is about to be called with success
ReconfigFires ==
    /\ settle # <<>>
    /\ settle[1].op = "configCR"
    /\ settle[1].reConfig
    /\ settled' = "configCR"
    /\ lastEc' = "ok"

\* a continuation of rotateCR is called with success
RotateFires == settled' = "rotateCR" /\ lastEc' = "ok"

C2_NeverStuck == (status = InProgress) ~> (status = Completed)

C2_Witness ==
    /\ settled # "none"
    /\ status = Completed
    /\ lastEc = "ok"
    /\ \E w \in writes : hw[w[1]] # w[2]

\* C3: reRanking under bmcSpecific gives the PSUs in state normal the orders
\* 1, 2, ..., k in fleet order and every other PSU the order 0.
C3_BmcRanks ==
    [][(ReconfigFires /\ algorithm = bmcSpecific) =>
          /\ Contiguous(order', psuState)
          /\ algorithm' = bmcSpecific
          /\ reRankCalls' = 1]_vars

C3_Witness ==
    /\ settled = "configCR" /\ lastEc = "ok" /\ reRankCalls = 1
    /\ algorithm = bmcSpecific
    /\ psuState = <<AcLost, Normal>>
    /\ order = <<0, 1>>

\* C4: reRanking under userSpecific with a PSU in state acLost switches the
\* algorithm to bmcSpecific, leaves the contiguous ranks, and calls reRanking
\* once more and only once.
C4_UserFallback ==
    [][(/\ ReconfigFires
        /\ algorithm = userSpecific
        /\ \E p \in PSUs : psuState[p] = AcLost) =>
          /\ algorithm' = bmcSpecific
          /\ Contiguous(order', psuState)
          /\ reRankCalls' = 2]_vars

C4_Witness ==
    /\ settled = "configCR" /\ lastEc = "ok" /\ reRankCalls = 2
    /\ algorithm = bmcSpecific
    /\ psuState = <<AcLost, Normal>>
    /\ order = <<0, 1>>

\* the orders are a permutation of 1..N
IsPermutation(ord) == {ord[p] : p \in DOMAIN ord} = 1..Len(ord)

\* C5: a rotation that completes on a fleet of N normal PSUs whose orders are
\* a permutation of 1..N maps r to r+1 and N to 1; in any fleet a PSU of order
\* 0 keeps it and gets no rank write.
C5_Rotation ==
    [][RotateFires =>
          /\ ((\A p \in PSUs : psuState[p] = Normal) /\ IsPermutation(order)) =>
                /\ \A p \in PSUs :
                      order'[p] = IF order[p] = numberOfPSU THEN 1
                                  ELSE order[p] + 1
                /\ IsPermutation(order')
          /\ \A p \in PSUs :
                order[p] = 0 =>
                    order'[p] = 0 /\ ~ \E w \in writes' : w[1] = p]_vars

C5_Witness ==
    /\ settled = "rotateCR" /\ lastEc = "ok"
    /\ psuState = <<Normal, Normal>>
    /\ order = <<2, 1>>
    /\ writes = {<<1, 2>>, <<2, 1>>}

\* C6 (as claimed): every order is 0 or within 1..goodPsuCount.
C6_OrderRange ==
    \A p \in PSUs : order[p] = 0 \/ (1 <= order[p] /\ order[p] <= GoodPSUCount(psuState))

\* C7 (as claimed): no two order registers hold the same rank other than 0.
C7_NoDuplicateRanks ==
    \A p \in PSUs, q \in PSUs : (p # q /\ hw[p] # 0) => hw[p] # hw[q]

\* C8 (as claimed): with redundancy enabled, a PSU that held a rank and lost
\* AC gets order 0 and the PSUs in state normal the ranks 1..k, unless
\* another message from outside reaches the engine first.
C8_ReRankOnFailure ==
    (failed # 0 /\ crSupported /\ enabled) ~>
        (failed = 0 \/ (order[failed] = 0 /\ Contiguous(order, psuState)))

\* C9 (as claimed): a continuation called with redundancy disabled writes no
\* rank other than 0.
C9_RevalidatesEnablement ==
    (settled # "none" /\ lastEc = "ok" /\ ~(crSupported /\ enabled)) =>
        \A w \in writes : w[2] = 0

\* C10 (as claimed): after a Reconfigure or Rotate completes, the orders taken
\* from rotationRankOrder by position are the orders the PSUs hold.
C10_RankOrderRoundTrip ==
    (settled # "none" /\ lastEc = "ok") =>
        OrdersFromRank(rankOrder, numberOfPSU) = order

\* the PSUs in state normal: the workable count of an evaluation that has
\* just run
Workable == GoodPSUCount(psuState)

\* C11: after every evaluation previousWorkableCount is the workable count,
\* and an evaluation that compared equal counts set no health class.
C11_Idempotent ==
    classified =>
        /\ evaluated
        /\ psuPreviousWorkable = Workable
        /\ (compared = Workable => emitted = <<>>)

C11_Witness ==
    /\ classified
    /\ compared = Workable
    /\ Workable = 1
    /\ association = Warning
    /\ emitted = <<>>

C13_CriticalRow ==
    (classified /\ Workable < compared /\ Workable = 0) =>
        (association = Critical /\ emitted # <<>>)

\* C14: an evaluation with fewer workable PSUs than before, and some left,
\* sets Warning when the workable count or the previous count reaches
\* redundantCount, and sets no class otherwise; it never sets Critical.
C14_DecreaseRow ==
    (classified /\ Workable < compared /\ Workable > 0) =>
        emitted = IF Workable >= redundantCount \/ compared >= redundantCount
                  THEN <<Warning>> ELSE <<>>

C14_Witness ==
    /\ classified
    /\ compared = 3
    /\ Workable = 1
    /\ redundantCount = 3
    /\ emitted = <<Warning>>
    /\ journal = <<"RedundancyLost", "NonRedundantSufficient">>

\* C15: an evaluation with more workable PSUs than before, and not all of
\* them, sets Warning when the workable count reaches redundantCount and the
\* previous count did not, NonCritical when the workable count is below
\* redundantCount and the previous count was 0, and no class otherwise.
C15_IncreaseRow ==
    (classified /\ Workable > compared /\ Workable < numberOfPSU) =>
        emitted = IF Workable >= redundantCount /\ compared < redundantCount
                  THEN <<Warning>>
                  ELSE IF Workable < redundantCount /\ compared = 0
                  THEN <<NonCritical>>
                  ELSE <<>>

C15_Witness ==
    /\ classified
    /\ compared = 0
    /\ Workable = 1
    /\ numberOfPSU = 3
    /\ redundantCount = 2
    /\ emitted = <<NonCritical>>
    /\ association = NonCritical

\* C16 (as claimed): a call of writePmbus or readPmbus makes at most 3
\* attempts.
C16_RetryBudget == pmbus.attempts <= 3

\* C16 (amended): a call of writePmbus or readPmbus makes at most
\* retryCount + 1 attempts, returns after the first attempt whose read-back
\* is the value written (whose read succeeds), and returns before that only
\* when the attempts are used up.
C16_RetryBudgetPlusOne ==
    /\ pmbus.attempts <= retryCount + 1
    /\ (pmbus.matched => pmbus.op = "returned")
    /\ (pmbus.op = "returned" =>
           pmbus.matched \/ pmbus.attempts = retryCount + 1)

C16_Witness ==
    /\ pmbus.op = "returned"
    /\ pmbus.attempts = 3
    /\ pmbus.matched
    /\ pmbus.value = 2
    /\ pmbus.tmpValue = 2

\* C17 (as claimed): when a re-ranking under bmcSpecific runs on a fleet with
\* more PSUs than rotationRankOrder has entries, the PSUs past that length
\* keep the order they had and get no register write from the continuation.
C17_OverflowUnassigned ==
    [][(ReconfigFires /\ algorithm' = bmcSpecific
                      /\ numberOfPSU > Len(rankOrder)) =>
          \A p \in PSUs :
              p > Len(rankOrder) =>
                  /\ order'[p] = order[p]
                  /\ ~ \E w \in writes' : w[1] = p]_vars

\* C17: such a re-ranking gives every PSU, past that length or not, its
\* contiguous rank, and the continuation writes the register of every PSU
\* in state normal; only rotationRankOrder is cut short: it keeps its length
\* and records the orders of the PSUs that fit.
C17_OverflowRanked ==
    [][(ReconfigFires /\ algorithm' = bmcSpecific
                      /\ numberOfPSU > Len(rankOrder)) =>
          /\ Contiguous(order', psuState)
          /\ Len(rankOrder') = Len(rankOrder)
          /\ \A p \in 1..Len(rankOrder) : rankOrder'[p] = order'[p]
          /\ \A p \in PSUs :
                (p > Len(rankOrder) /\ psuState[p] = Normal) =>
                    /\ order'[p] # 0
                    /\ <<p, order'[p]>> \in writes']_vars

C17_Witness ==
    /\ settled = "configCR" /\ lastEc = "ok" /\ reRankCalls = 1
    /\ algorithm = bmcSpecific
    /\ psuState = <<Normal, Normal>>
    /\ rankOrder = <<1>>
    /\ order = <<1, 2>>
    /\ writes = {<<1, 1>>, <<2, 2>>}

\* C18: a settle continuation of configCR or rotateCR that is called with
\* operation_aborted or with an error sets the status to completed, writes
\* no register, calls no reRanking and rotates nothing: every order,
\* rotationRankOrder, the algorithm and every register stay as they were.
C18_FailedSettle ==
    [][(Len(settle') < Len(settle) /\ lastEc' \in {"aborted", "error"}) =>
          /\ status' = Completed
          /\ writes' = {}
          /\ reRankCalls' = 0
          /\ order' = order
          /\ rankOrder' = rankOrder
          /\ algorithm' = algorithm
          /\ hw' = hw]_vars

C18_Witness ==
    /\ settled = "rotateCR" /\ lastEc = "error"
    /\ status = Completed
    /\ writes = {}
    /\ psuState = <<Normal, Normal>>
    /\ order = <<1, 2>>
    /\ hw = <<0, 0>>

\* C19: a drift check that runs the loop of checkCR reads PSUs in state
\* normal only, in fleet order, each at most once; it calls configCR(true)
\* if and only if one of them reads 0, and then once; a read that fails
\* (the value stays -1) or gives another value calls nothing; the PSU that
\* reads 0 is the last one read, and without a 0 every PSU in state normal
\* is read.
C19_DriftTrigger ==
    driftCheck.ran =>
        LET reads == driftCheck.reads
            zeros == {k \in DOMAIN reads : reads[k][2] = 0}
        IN  /\ (request = "configCR") <=> (zeros # {})
            /\ driftCheck.requests = (IF zeros # {} THEN 1 ELSE 0)
            /\ zeros \subseteq {Len(reads)}
            /\ \A k \in DOMAIN reads : psuState[reads[k][1]] = Normal
            /\ \A k \in DOMAIN reads, j \in DOMAIN reads :
                   k < j => reads[k][1] < reads[j][1]
            /\ \A p \in PSUs :
                   (/\ psuState[p] = Normal
                    /\ (zeros = {} \/ p < reads[Len(reads)][1])) =>
                       \E k \in DOMAIN reads : reads[k][1] = p

C19_Witness ==
    /\ driftCheck.ran
    /\ psuState = <<Normal, Normal>>
    /\ enabled
    /\ driftCheck.reads = <<<<1, 0>>>>
    /\ request = "configCR"

\* a drift check with a failed read and a read of a rank calls nothing
C19_WitnessNoTrigger ==
    /\ driftCheck.ran
    /\ driftCheck.reads = <<<<1, -1>>, <<2, 2>>>>
    /\ request = "none"

\* C20: the handler that takes the status from completed to inProgress, an
\* accepted configCR or rotateCR, writes 0 to the register of every PSU in
\* state normal, and of no other, in that same step, and arms the settle
\* wait; from there until the continuation of that wait is called, no
\* handler writes a rank other than 0 to any register.
C20_WarmFirst ==
    /\ [][(status = Completed /\ status' = InProgress) =>
            /\ request' \in {"configCR", "rotateCR"}
            /\ writes' = {<<p, 0>> : p \in {q \in PSUs : psuState[q] = Normal}}
            /\ \A p \in PSUs : psuState[p] = Normal => hw'[p] = 0
            /\ Len(settle') = Len(settle) + 1]_vars
    /\ [][(status = InProgress /\ Len(settle') >= Len(settle)) =>
            /\ status' = InProgress
            /\ \A w \in writes' : w[2] = 0
            /\ \A p \in PSUs : hw'[p] # hw[p] => hw'[p] = 0]_vars

C20_Witness ==
    /\ status = InProgress
    /\ request = "rotateCR"
    /\ Len(settle) = 1 /\ settle[1].op = "rotateCR"
    /\ psuState = <<Normal, AcLost>>
    /\ order = <<1, 2>>
    /\ writes = {<<1, 0>>}
    /\ hw = <<0, 2>>

\* C21: reRanking under userSpecific with every PSU in state normal changes
\* nothing: the orders, rotationRankOrder and the algorithm stay as they
\* were, reRanking is called once, and the continuation of configCR(true)
\* writes to each PSU the order it held, where that is not 0.
C21_UserNoOp ==
    [][(/\ ReconfigFires
        /\ algorithm = userSpecific
        /\ \A p \in PSUs : psuState[p] = Normal) =>
          /\ order' = order
          /\ rankOrder' = rankOrder
          /\ algorithm' = userSpecific
          /\ reRankCalls' = 1
          /\ writes' = {<<p, order[p]>> : p \in {q \in PSUs : order[q] # 0}}
          /\ \A p \in PSUs : order[p] # 0 => hw'[p] = order[p]]_vars

C21_Witness ==
    /\ settled = "configCR" /\ lastEc = "ok" /\ reRankCalls = 1
    /\ algorithm = userSpecific
    /\ psuState = <<Normal, Normal>>
    /\ order = <<2, 1>>
    /\ rankOrder = <<2, 1>>
    /\ writes = {<<1, 2>>, <<2, 1>>}
    /\ hw = <<2, 1>>

\* C22 (as claimed): a drift check with redundancy disabled requests no
\* configCR, leaves the status and the settle wait alone, writes 0 to the
\* register of every PSU in state normal, and leaves one wait of timerCheck
\* pending.
C22_DisabledPass ==
    [][(driftCheck'.fired /\ ~enabled) =>
          /\ request' = "none"
          /\ status' = status
          /\ settle' = settle
          /\ writes' = {<<p, 0>> : p \in {q \in PSUs : psuState[q] = Normal}}
          /\ timerCheck' = 1]_vars

\* C22: the same, on a platform with support for cold redundancy; the
\* registers of the PSUs in state normal then hold 0, the others and every
\* order are unchanged.  Without support the check writes nothing.
C22_DisabledPassSupported ==
    [][(driftCheck'.fired /\ ~enabled) =>
          /\ request' = "none"
          /\ status' = status
          /\ settle' = settle
          /\ order' = order
          /\ timerCheck' = 1
          /\ IF crSupported
             THEN /\ writes' = {<<p, 0>> :
                                  p \in {q \in PSUs : psuState[q] = Normal}}
                  /\ \A p \in PSUs :
                        hw'[p] = IF psuState[p] = Normal THEN 0 ELSE hw[p]
             ELSE writes' = {} /\ hw' = hw]_vars

C22_Witness ==
    /\ driftCheck.fired /\ ~driftCheck.ran
    /\ crSupported /\ ~enabled
    /\ status = InProgress
    /\ psuState = <<AcLost, Normal>>
    /\ writes = {<<2, 0>>}
    /\ hw = <<1, 0>>
    /\ timerCheck = 1

\* C23 (as claimed): every eventCollect call leaves one wait of
\* puRedundantTimer pending and evaluates nothing.
C23_EveryNotificationArms ==
    [][burst'.last =>
          /\ puRedundantTimer' = 1
          /\ ~classified'
          /\ UNCHANGED <<evaluated, psuPreviousWorkable, association>>]_vars

\* C23: an eventCollect call evaluates nothing; with redundancy supported
\* and enabled it replaces the pending wait of puRedundantTimer, if there is
\* one, by a new one, and otherwise it leaves the timer as it is.  At most
\* one wait is pending in every state, however long the burst; the
\* evaluation that ends the burst uses up that wait and counts the PSUs in
\* state normal at the time it runs.
C23_Coalescing ==
    /\ [](puRedundantTimer <= 1)
    /\ [][burst'.last =>
            /\ puRedundantTimer' = IF crSupported /\ enabled THEN 1
                                   ELSE puRedundantTimer
            /\ ~classified'
            /\ UNCHANGED <<evaluated, psuPreviousWorkable, association>>]_vars
    /\ [][puRedundantTimer' < puRedundantTimer =>
            /\ puRedundantTimer' = 0
            /\ classified'
            /\ burst'.count = 0
            /\ psuPreviousWorkable' = GoodPSUCount(psuState')]_vars

C23_Witness ==
    /\ burst.last /\ burst.count = 2
    /\ crSupported /\ enabled
    /\ puRedundantTimer = 1
    /\ evaluated /\ psuPreviousWorkable = 2
    /\ numberOfPSU = 2 /\ Workable = 0

\* C24 (as claimed): a wait of puRedundantTimer that completes while
\* redundancy is unsupported or disabled evaluates nothing: no health class
\* is set, the association stays, and so does the count the next evaluation
\* compares with.
C24_FireTimeEnablement ==
    [][(puRedundantTimer' < puRedundantTimer /\ ~(crSupported /\ enabled)) =>
          /\ emitted' = <<>>
          /\ journal' = <<>>
          /\ association' = association
          /\ Previous' = Previous]_vars

\* the addresses of the table, as the poller takes them
TableAddrs == {addrTable[i] % 256 : i \in DOMAIN addrTable}

\* the addresses a cycle journalled with the event ev
PollEvents(p, ev) ==
    {p.events[k][1] : k \in {j \in DOMAIN p.events : p.events[j][2] = ev}}

\* C25 (as claimed): after a poll cycle psuPresence is the set of the
\* addresses that answered in that cycle; an address is journalled as
\* inserted exactly when it answers while not in the set, as removed exactly
\* when it does not answer while in the set.
C25_PresenceExact ==
    [][poll'.cycle # poll.cycle =>
          /\ psuPresence' = poll'.alive
          /\ PollEvents(poll', "inserted") = poll'.alive \ psuPresence
          /\ PollEvents(poll', "removed") = psuPresence \ poll'.alive]_vars

\* C25: after a poll cycle the addresses of the table that are in
\* psuPresence are those that answered in that cycle, and the addresses
\* outside the table are in the set as they were before; an address of the
\* table is journalled as inserted exactly when it answers while not in the
\* set and as removed exactly when it does not answer while in the set, at
\* most once a cycle; the first entry of an address is inserted and the
\* entries of an address alternate; an address is in the set exactly when
\* its last entry is inserted.
C25_PresenceTransitions ==
    /\ [](\A a \in Addrs : a \in psuPresence <=> lastEvent[a] = "inserted")
    /\ [][poll'.cycle # poll.cycle =>
            /\ psuPresence' \cap TableAddrs = poll'.alive
            /\ psuPresence' \ TableAddrs = psuPresence \ TableAddrs
            /\ PollEvents(poll', "inserted") = poll'.alive \ psuPresence
            /\ PollEvents(poll', "removed") =
                   (psuPresence \cap TableAddrs) \ poll'.alive
            /\ \A j \in DOMAIN poll'.events, k \in DOMAIN poll'.events :
                   j # k => poll'.events[j][1] # poll'.events[k][1]
            /\ \A a \in PollEvents(poll', "inserted") :
                   lastEvent[a] \in {"none", "removed"}
            /\ \A a \in PollEvents(poll', "removed") :
                   lastEvent[a] = "inserted"]_vars

C25_Witness ==
    /\ addrTable = <<1, 2>>
    /\ poll.alive = {2}
    /\ poll.events = <<<<1, "removed">>, <<2, "inserted">>>>
    /\ psuPresence = {2}
    /\ lastEvent = <<"removed", "inserted">>
    /\ poll.rescans = 1

\* C26 (as claimed): if from some point on redundancy is supported and
\* enabled, rotation is enabled and a wait of timerRotation is pending,
\* then rotateCR is called again and again.
C26_RotationEventually ==
    <>[](crSupported /\ enabled /\ rotationEnabled /\ timerRotation > 0)
        => []<>(request = "rotateCR")

\* the same, with no handler called from outside and no timer error from
\* that point on
C26_RotationEventuallyQuiet ==
    <>[](/\ crSupported /\ enabled /\ rotationEnabled /\ timerRotation > 0
         /\ rearmed \in {"no", "engine"} /\ lastEc # "error")
        => []<>(request = "rotateCR")

\* C27 (as claimed): when the continuation of a configCR(true), which only
\* the drift check requests, has run with success, the register of every PSU
\* in state normal holds a rank other than 0, so that the next drift check
\* reads no 0 and requests nothing.
C27_Stabilizes ==
    [][ReconfigFires =>
          \A p \in PSUs : psuState[p] = Normal => hw'[p] # 0]_vars

\* C28: timerRotation and timerCheck have at most one wait pending in every
\* state; a timer that has a wait pending has exactly one after every
\* handler, the wait of the drift check that calls an accepted configCR
\* included.
C28_SingleWait ==
    /\ [](timerRotation \in {0, 1} /\ timerCheck \in {0, 1})
    /\ [](scanned => timerRotation = 1 /\ timerCheck = 1)
    /\ [][/\ timerRotation = 1 => timerRotation' = 1
          /\ timerCheck = 1 => timerCheck' = 1]_vars

C28_Witness ==
    /\ request = "configCR"
    /\ status = InProgress
    /\ Len(settle) = 1 /\ settle[1].reConfig
    /\ timerCheck = 1
    /\ timerRotation = 1

\* C29: while status is InProgress, a change of RotationRankOrder that is
\* not made by the settle continuation (the continuation stays pending)
\* changes the order of no PSU.
C29_OrdersStable ==
    [][(/\ status = InProgress
        /\ settle' = settle
        /\ rankOrder' # rankOrder)
       => \A p \in DOMAIN order \cap DOMAIN order' : order'[p] = order[p]]_vars

====
